---------------------------- MODULE Spec2Model ----------------------------
(***************************************************************************)
(* FileOrganizer (organize.py): classification of the files of the working *)
(* directory against an ordered rule list, and their relocation into       *)
(* category folders, with per-file bookkeeping and a final report.         *)
(*                                                                         *)
(* A file or folder name is a sequence of one-character strings, so that   *)
(* stem, suffix, lower-casing, prefix tests, ordering and the timestamp    *)
(* rename are computed as the code computes them.  A path is a sequence of *)
(* names relative to WORK_DIR.                                             *)
(***************************************************************************)
EXTENDS Integers, Sequences, FiniteSets, TLC

VARIABLES
    pc,               \* position in main(): load, collect, loop, report, done, raised, classify, classified
    exc,              \* the exception that left main(), or "none"
    cfg,              \* state of config.json: ok, missing, badjson
    rules,            \* config["rules"]
    overwrite,        \* settings["overwrite"]
    dry_run,          \* settings["dry_run"]
    unmatched_folder, \* settings["unmatched_folder"]
    fs,               \* the filesystem under WORK_DIR: path -> "dir" or a file's content
    fs0,              \* the filesystem when the session started
    files,            \* sorted(files): the snapshot being processed
    idx,              \* loop position in sorted(files), 1-based
    stats,            \* stats: folder -> count
    errors,           \* errors: sequence of the failed files' messages
    success_count,
    fail_count,
    report,           \* what print_report displayed
    clock,            \* datetime.now(), in seconds after the session's start
    last              \* the last iteration's locals: file, folder, rule_name, dest, success

vars == <<pc, exc, cfg, rules, overwrite, dry_run, unmatched_folder, fs, fs0,
          files, idx, stats, errors, success_count, fail_count, report, clock, last>>

--------------------------------------------------------------------------
(* Bounds of the model *)

\* longest filename drawn for classify_file
MaxLen == 4
\* longest rule list drawn for classify_file
MaxRules == 2
\* longest rule list of a session's config.json
MaxCfgRules == 2
\* most files in the working directory at the session's start
MaxFiles == 3
\* seconds the clock may advance during a session
MaxClock == 2

--------------------------------------------------------------------------
(* Characters and strings *)

\* the characters used, in code point order
CharOrder ==
    <<".", "0", "1", "2", "3", "4", "5", "6", "7", "8", "9",
      "A", "B", "T", "_", "a", "b", "d", "o", "p", "t">>

Ord(c) == CHOOSE i \in 1..Len(CharOrder) : CharOrder[i] = c

\* str.lower() on one character
LowerChar(c) ==
    CASE c = "A" -> "a"
      [] c = "B" -> "b"
      [] c = "T" -> "t"
      [] OTHER -> c

\* str.lower()
lower(s) == [i \in 1..Len(s) |-> LowerChar(s[i])]

\* str.startswith(p)
startswith(s, p) == Len(p) <= Len(s) /\ SubSeq(s, 1, Len(p)) = p

\* str.rfind('.') as a 1-based index, 0 when there is no dot
rfind_dot(s) ==
    IF \E i \in 1..Len(s) : s[i] = "."
    THEN CHOOSE i \in 1..Len(s) : s[i] = "." /\ \A j \in (i+1)..Len(s) : s[j] # "."
    ELSE 0

\* a suffix that takes everything from the last dot, wherever that dot is
\* (what suffix would be without pathlib's rule for leading and trailing dots)
suffix_from_last_dot(name) ==
    LET i == rfind_dot(name)
    IN  IF i > 0 THEN SubSeq(name, i, Len(name)) ELSE <<>>

\* pathlib: PurePath.suffix, '' unless the last dot is neither first nor last
suffix(name) ==
    LET i == rfind_dot(name)
    IN  IF 1 < i /\ i < Len(name) THEN SubSeq(name, i, Len(name)) ELSE <<>>

\* pathlib: PurePath.stem
stem(name) ==
    LET i == rfind_dot(name)
    IN  IF 1 < i /\ i < Len(name) THEN SubSeq(name, 1, i - 1) ELSE name

\* str < str, by code points
RECURSIVE StrLess(_, _)
StrLess(s, t) ==
    IF s = <<>> THEN t # <<>>
    ELSE IF t = <<>> THEN FALSE
    ELSE IF s[1] # t[1] THEN Ord(s[1]) < Ord(t[1])
    ELSE StrLess(Tail(s), Tail(t))

\* sorted() of a set of names
RECURSIVE sorted(_)
sorted(S) ==
    IF S = {} THEN <<>>
    ELSE LET m == CHOOSE x \in S : \A y \in S \ {x} : StrLess(x, y)
         IN  <<m>> \o sorted(S \ {m})

--------------------------------------------------------------------------
(* classify_file *)

HasKey(rule, k) == k \in DOMAIN rule

\* the test of one rule (lines 52-58), for a rule that has type and patterns
RuleMatches(rule, filename) ==
    LET name     == lower(filename)
        st       == lower(stem(filename))
        ext      == lower(suffix(filename))
        patterns == {lower(rule.patterns[i]) : i \in 1..Len(rule.patterns)}
    IN  CASE rule.type = "extension" -> ext \in patterns
          [] rule.type = "prefix" ->
                \E p \in patterns : startswith(st, p) \/ startswith(name, p)
          [] OTHER -> FALSE

\* the loop of classify_file from rule i on: the first match's
\* (output_folder, name), (None, None), or a KeyError on a missing field
RECURSIVE classify_from(_, _, _)
classify_from(filename, rs, i) ==
    IF i > Len(rs) THEN [tag |-> "None"]
    ELSE IF ~HasKey(rs[i], "type") \/ ~HasKey(rs[i], "patterns")
         THEN [tag |-> "KeyError"]
    ELSE IF RuleMatches(rs[i], filename)
         THEN IF HasKey(rs[i], "output_folder") /\ HasKey(rs[i], "name")
              THEN [tag |-> "match", folder |-> rs[i].output_folder,
                    rule_name |-> rs[i].name]
              ELSE [tag |-> "KeyError"]
    ELSE classify_from(filename, rs, i + 1)

\* a classify_file in which a later matching rule overrides an earlier one
\* (what the loop would do without its early return)
classify_last_match(filename, rs) ==
    LET M == {i \in 1..Len(rs) : RuleMatches(rs[i], filename)}
    IN  IF M = {} THEN [tag |-> "None"]
        ELSE LET i == CHOOSE i \in M : \A j \in M : j <= i
             IN  [tag |-> "match", folder |-> rs[i].output_folder,
                  rule_name |-> rs[i].name]

classify_file(filename, rs) == classify_from(filename, rs, 1)

\* lines 154-158: classify, and substitute the unmatched folder for None;
\* "unclassified" stands for the Korean label main() gives such a file
Route(filename, rs, unmatched) ==
    LET c == classify_file(filename, rs)
    IN  IF c.tag = "None"
        THEN [tag |-> "match", folder |-> unmatched, rule_name |-> "unclassified"]
        ELSE c

--------------------------------------------------------------------------
(* The clock and the collision timestamp *)

Digits == <<"0", "1", "2", "3", "4", "5", "6", "7", "8", "9">>

TwoDigits(n) == <<Digits[(n \div 10) + 1], Digits[(n % 10) + 1]>>

\* the session starts at 11:59:59 on 2026-11-01
StartSecond == 11 * 3600 + 59 * 60 + 59

\* datetime.now().strftime("%Y%m%d_%H%M%S") when the clock reads t
strftime(t) ==
    LET s == StartSecond + t
    IN  <<"2", "0", "2", "6", "1", "1", "0", "1", "_">>
        \o TwoDigits(s \div 3600) \o TwoDigits((s % 3600) \div 60) \o TwoDigits(s % 60)

\* f"{src.stem}_{timestamp}{src.suffix}"
RenamedName(name, t) == stem(name) \o <<"_">> \o strftime(t) \o suffix(name)

--------------------------------------------------------------------------
(* The filesystem *)

exists(f, p) == p \in DOMAIN f
is_dir(f, p) == p \in DOMAIN f /\ f[p] = "dir"
is_file(f, p) == p \in DOMAIN f /\ f[p] # "dir"

\* dest_dir.mkdir(parents=True, exist_ok=True); oserr = "mkdir": the
\* directory cannot be created (no permission, read-only medium, ...)
mkdir(f, d, oserr) ==
    IF is_dir(f, d) THEN [raised |-> "none", fs |-> f]
    ELSE IF exists(f, d) THEN [raised |-> "FileExistsError", fs |-> f]
    ELSE IF oserr = "mkdir" THEN [raised |-> "PermissionError", fs |-> f]
    ELSE [raised |-> "none", fs |-> (d :> "dir") @@ f]

\* shutil.move(src, dst) of a regular file: into dst when dst is a
\* directory, else onto dst, replacing a file there; oserr = "move": the
\* rename and the copy both fail
shutil_move(f, src, dst, oserr) ==
    LET real_dst == IF is_dir(f, dst) THEN dst \o <<src[Len(src)]>> ELSE dst
    IN  IF is_dir(f, dst) /\ exists(f, real_dst)
        THEN [raised |-> "Error", fs |-> f]
        ELSE IF oserr = "move" \/ ~exists(f, src)
        THEN [raised |-> "OSError", fs |-> f]
        ELSE [raised |-> "none",
              fs |-> [p \in (DOMAIN f \ {src}) \cup {real_dst} |->
                        IF p = real_dst THEN f[src] ELSE f[p]]]

\* a resolve that never renames (what lines 73-75 would do with the
\* overwrite test inverted or dropped)
resolve_without_rename(f, dest_dir, name, ow, now) == dest_dir \o <<name>>

\* lines 70-75: the destination path, renamed with the timestamp when
\* the destination exists and overwrite is off
resolve(f, dest_dir, name, ow, now) ==
    IF exists(f, dest_dir \o <<name>>) /\ ~ow
    THEN dest_dir \o <<RenamedName(name, now)>>
    ELSE dest_dir \o <<name>>

\* move_file(src, dest_dir, overwrite, dry_run): raised is the exception
\* that leaves it ("none": it returned (success, msg))
move_file(f, src, dest_dir, ow, dr, now, oserr) ==
    LET mk   == mkdir(f, dest_dir, oserr)
        dest == resolve(mk.fs, dest_dir, src[Len(src)], ow, now)
        mv   == shutil_move(mk.fs, src, dest, oserr)
    IN  IF mk.raised # "none"
        THEN [raised |-> mk.raised, success |-> FALSE, fs |-> mk.fs, dest |-> <<>>]
        ELSE IF dr
        THEN [raised |-> "none", success |-> TRUE, fs |-> mk.fs, dest |-> dest]
        ELSE IF mv.raised = "none"
        THEN [raised |-> "none", success |-> TRUE, fs |-> mv.fs, dest |-> dest]
        ELSE [raised |-> "none", success |-> FALSE, fs |-> mv.fs, dest |-> dest]

--------------------------------------------------------------------------
(* Bookkeeping and report *)

\* stats[folder] += 1 on a defaultdict(int)
Increment(st, folder) ==
    IF folder \in DOMAIN st
    THEN [st EXCEPT ![folder] = @ + 1]
    ELSE (folder :> 1) @@ st

\* sum(stats.values())
RECURSIVE SumOver(_, _)
SumOver(st, D) ==
    IF D = {} THEN 0
    ELSE LET k == CHOOSE k \in D : TRUE
         IN  st[k] + SumOver(st, D \ {k})

sum_values(st) == SumOver(st, DOMAIN st)

\* the totals print_report displays (lines 90, 107-109)
print_report(st, errs) ==
    LET total == sum_values(st)
    IN  [printed |-> TRUE, total |-> total,
         success |-> total - Len(errs), failure |-> Len(errs)]

--------------------------------------------------------------------------
(* Configurations and working directories a session may start from *)

\* SKIP_FILES (line 25): names the session never moves
SKIP_FILES ==
    { <<"o", "r", "g", "a", "n", "i", "z", "e", ".", "p", "y">>,
      <<"c", "o", "n", "f", "i", "g", ".", "j", "s", "o", "n">> }

\* settings.get("unmatched_folder", "others"): the default, one letter here
DefaultUnmatched == <<"o">>

Docs == <<"d">>
Pre  == <<"p">>

ExtRule ==
    [name |-> "docs", type |-> "extension", patterns |-> << <<".", "T">> >>,
     output_folder |-> Docs]
PrefixRule ==
    [name |-> "pre", type |-> "prefix", patterns |-> << <<"a">> >>,
     output_folder |-> Pre]
\* rule entries lacking a required field
NoTypeRule ==
    [name |-> "notype", patterns |-> << <<".", "t">> >>, output_folder |-> Docs]
NoFolderRule ==
    [name |-> "nofolder", type |-> "prefix", patterns |-> << <<"a">> >>]

\* all sequences over S of length at most n
SeqsUpTo(S, n) == UNION {[1..k -> S] : k \in 0..n}

CfgRuleLists == SeqsUpTo({ExtRule, PrefixRule, NoTypeRule, NoFolderRule}, MaxCfgRules)

\* names of the files the working directory may hold
FileB  == <<"B", ".", "T">>
FileA  == <<"a", ".", "t">>
FileAB == <<"a", "b">>
FileD  == <<"d">>
TopNames == {FileB, FileA, FileAB, FileD}

Content(name) == <<"data", name>>

TopLevel(T) == [p \in {<<n>> : n \in T} |-> Content(p[1])]

\* what the folder d may already hold: d/a.t and the path a.t is renamed
\* to when the clock reads 1, each absent, a file or a directory
Renamed1 == RenamedName(FileA, 1)
DestWorlds ==
    { <<>>,
      (<<Docs>> :> "dir"),
      (<<Docs>> :> "dir") @@ (<<Docs, FileA>> :> "old"),
      (<<Docs>> :> "dir") @@ (<<Docs, FileA>> :> "old") @@ (<<Docs, Renamed1>> :> "older"),
      (<<Docs>> :> "dir") @@ (<<Docs, FileA>> :> "old") @@ (<<Docs, Renamed1>> :> "dir"),
      (<<Docs>> :> "dir") @@ (<<Docs, FileA>> :> "dir"),
      (<<Docs>> :> "dir") @@ (<<Docs, FileA>> :> "dir") @@ (<<Docs, FileA, FileA>> :> "old") }

InitialFilesystems ==
    { TopLevel(T) @@ w :
        <<T, w>> \in { tw \in (SUBSET TopNames) \X DestWorlds :
                         /\ Cardinality(tw[1]) <= MaxFiles
                         /\ (FileD \in tw[1] => tw[2] = <<>>) } }

NoCall ==
    [called |-> FALSE, file |-> <<>>, folder |-> <<>>, rule_name |-> "",
     dest |-> <<>>, success |-> FALSE]

NoReport == [printed |-> FALSE, total |-> 0, success |-> 0, failure |-> 0]

--------------------------------------------------------------------------
(* main() *)

Init ==
    /\ pc = "load"
    /\ exc = "none"
    /\ cfg \in {"ok", "missing", "badjson"}
    /\ rules \in (IF cfg = "ok" THEN CfgRuleLists ELSE {<<>>})
    /\ overwrite \in (IF cfg = "ok" THEN BOOLEAN ELSE {FALSE})
    /\ dry_run \in (IF cfg = "ok" THEN BOOLEAN ELSE {FALSE})
    /\ unmatched_folder = DefaultUnmatched
    /\ fs \in InitialFilesystems
    /\ fs0 = fs
    /\ files = <<>>
    /\ idx = 0
    /\ stats = <<>>
    /\ errors = <<>>
    /\ success_count = 0
    /\ fail_count = 0
    /\ report = NoReport
    /\ clock = 0
    /\ last = NoCall

\* lines 126-132: load_config exits when config.json is missing, json.load
\* raises when it is malformed
LoadConfig ==
    /\ pc = "load"
    /\ pc' = (IF cfg = "ok" THEN "collect" ELSE "raised")
    /\ exc' = (CASE cfg = "missing" -> "SystemExit"
                 [] cfg = "badjson" -> "JSONDecodeError"
                 [] OTHER -> "none")
    /\ UNCHANGED <<cfg, rules, overwrite, dry_run, unmatched_folder, fs, fs0, files,
                   idx, stats, errors, success_count, fail_count, report, clock, last>>

\* lines 135-151: the snapshot of the working directory's files
CollectFiles ==
    /\ pc = "collect"
    /\ LET found == {p[1] : p \in {q \in DOMAIN fs : Len(q) = 1 /\ is_file(fs, q)}}
                      \ SKIP_FILES
       IN  /\ files' = sorted(found)
           /\ pc' = (IF found = {} THEN "done" ELSE "loop")
    /\ idx' = 1
    /\ stats' = <<>>
    /\ errors' = <<>>
    /\ success_count' = 0
    /\ fail_count' = 0
    /\ UNCHANGED <<exc, cfg, rules, overwrite, dry_run, unmatched_folder, fs, fs0,
                   report, clock, last>>

\* lines 153-170: one iteration of the loop
ProcessFile(oserr) ==
    /\ pc = "loop"
    /\ LET file == files[idx]
           r    == Route(file, rules, unmatched_folder)
           m    == move_file(fs, <<file>>, <<r.folder>>, overwrite, dry_run, clock, oserr)
       IN  IF r.tag = "KeyError"
           THEN /\ exc' = "KeyError"
                /\ pc' = "raised"
                /\ UNCHANGED <<fs, idx, stats, errors, success_count, fail_count, last>>
           ELSE IF m.raised # "none"
           THEN /\ exc' = m.raised
                /\ pc' = "raised"
                /\ fs' = m.fs
                /\ UNCHANGED <<idx, stats, errors, success_count, fail_count, last>>
           ELSE /\ fs' = m.fs
                /\ last' = [called |-> TRUE, file |-> file, folder |-> r.folder,
                            rule_name |-> r.rule_name, dest |-> m.dest,
                            success |-> m.success]
                /\ stats' = (IF m.success THEN Increment(stats, r.folder) ELSE stats)
                /\ success_count' = success_count + (IF m.success THEN 1 ELSE 0)
                /\ errors' = (IF m.success THEN errors ELSE Append(errors, file))
                /\ fail_count' = fail_count + (IF m.success THEN 0 ELSE 1)
                /\ idx' = idx + 1
                /\ pc' = (IF idx = Len(files) THEN "report" ELSE "loop")
                /\ exc' = exc
    /\ UNCHANGED <<cfg, rules, overwrite, dry_run, unmatched_folder, fs0, files,
                   report, clock>>

\* a second passes while the loop runs
Tick ==
    /\ pc = "loop"
    /\ clock < MaxClock
    /\ clock' = clock + 1
    /\ UNCHANGED <<pc, exc, cfg, rules, overwrite, dry_run, unmatched_folder, fs, fs0,
                   files, idx, stats, errors, success_count, fail_count, report, last>>

\* lines 173-175
PrintReport ==
    /\ pc = "report"
    /\ report' = print_report(stats, errors)
    /\ pc' = "done"
    /\ UNCHANGED <<exc, cfg, rules, overwrite, dry_run, unmatched_folder, fs, fs0, files,
                   idx, stats, errors, success_count, fail_count, clock, last>>

Next ==
    \/ LoadConfig
    \/ CollectFiles
    \/ \E oserr \in {"none", "mkdir", "move"} : ProcessFile(oserr)
    \/ Tick
    \/ PrintReport

Spec == Init /\ [][Next]_vars

--------------------------------------------------------------------------
(* classify_file on its own: every filename and rule list within the bounds *)

ClassifyChars == {"a", "A", "."}

\* filenames: non-empty, and not the directory entries "." and ".."
ClassifyNames ==
    (SeqsUpTo(ClassifyChars, MaxLen) \ {<<>>, <<".">>, <<".", ".">>})

ClassifyPool ==
    { [name |-> "upper", type |-> "extension",
       patterns |-> << <<".", "A">>, <<".", "a", "a">> >>, output_folder |-> Docs],
      [name |-> "dot", type |-> "extension",
       patterns |-> << <<".">> >>, output_folder |-> <<"t">>],
      [name |-> "noext", type |-> "extension",
       patterns |-> << <<>> >>, output_folder |-> <<"b">>],
      [name |-> "pre", type |-> "prefix",
       patterns |-> << <<"a", ".">>, <<".", "A">> >>, output_folder |-> Pre],
      [name |-> "preA", type |-> "prefix",
       patterns |-> << <<"A", "A">> >>, output_folder |-> <<"a">>],
      [name |-> "regex", type |-> "regex",
       patterns |-> << <<"a">>, <<".", "a">> >>, output_folder |-> <<"B">>],
      [name |-> "empty", type |-> "extension",
       patterns |-> <<>>, output_folder |-> <<"T">>] }

ClassifyInit ==
    /\ pc = "classify"
    /\ exc = "none"
    /\ cfg = "ok"
    /\ rules \in SeqsUpTo(ClassifyPool, MaxRules)
    /\ overwrite = FALSE
    /\ dry_run = FALSE
    /\ unmatched_folder \in {DefaultUnmatched, <<"b">>}
    /\ fs = <<>>
    /\ fs0 = <<>>
    /\ files \in {<<n>> : n \in ClassifyNames}
    /\ idx = 1
    /\ stats = <<>>
    /\ errors = <<>>
    /\ success_count = 0
    /\ fail_count = 0
    /\ report = NoReport
    /\ clock = 0
    /\ last = NoCall

\* lines 154-158 alone: classify the file and route it
ClassifyStep ==
    /\ pc = "classify"
    /\ LET r == Route(files[idx], rules, unmatched_folder)
       IN  IF r.tag = "KeyError"
           THEN /\ exc' = "KeyError"
                /\ pc' = "raised"
                /\ last' = last
           ELSE /\ last' = [called |-> TRUE, file |-> files[idx], folder |-> r.folder,
                            rule_name |-> r.rule_name, dest |-> <<>>, success |-> FALSE]
                /\ pc' = "classified"
                /\ exc' = exc
    /\ UNCHANGED <<cfg, rules, overwrite, dry_run, unmatched_folder, fs, fs0, files,
                   idx, stats, errors, success_count, fail_count, report, clock>>

ClassifyNext == ClassifyStep

SpecClassify == ClassifyInit /\ [][ClassifyNext]_vars

--------------------------------------------------------------------------
(* Properties *)

\* the exceptions a configuration causes
ConfigErrors == {"SystemExit", "JSONDecodeError", "KeyError"}

\* the exceptions that leave move_file
MoveErrors == {"FileExistsError", "PermissionError"}

\* the loop's current file, its source path and its destination paths
CurFile == files[idx]
CurSrc == <<CurFile>>
CurRoute == Route(CurFile, rules, unmatched_folder)
CurDestDir == IF CurRoute.tag = "match" THEN <<CurRoute.folder>> ELSE <<>>
CurDest == CurDestDir \o <<CurFile>>
CurRenamed == CurDestDir \o <<RenamedName(CurFile, clock)>>

\* this step is an iteration of the loop in which move_file returned
Returned == pc = "loop" /\ idx' = idx + 1

\* C1: a session run with dry_run=true leaves the filesystem exactly as it
\* was at its start: no file moved, no destination directory created.
C1_DryRunLeavesFilesystem == dry_run => fs = fs0

\* C2: no failure of directory creation or relocation leaves move_file as
\* an exception and ends the session; it is returned as a failure outcome.
C2_MoveFailuresNeverEscape == exc \notin MoveErrors

\* C3: the report's total is the sum of the per-folder counts plus the number
\* of errors, its success figure is the sum of the per-folder counts, and its
\* failure figure is the number of errors.
C3_ReportTotals ==
    report.printed =>
        /\ report.total = sum_values(stats) + Len(errors)
        /\ report.success = sum_values(stats)
        /\ report.failure = Len(errors)

\* C4: when a file exists at destination_dir/source_filename and overwrite is
\* off, a non-dry-run move that succeeds places the source file at
\* destination_dir/{stem}_{timestamp}{ext} and leaves the existing file in
\* place, unchanged.
C4_CollisionRename ==
    [][ (Returned /\ ~overwrite /\ ~dry_run /\ is_file(fs, CurDest) /\ last'.success)
        => /\ is_file(fs', CurRenamed) /\ fs'[CurRenamed] = fs[CurSrc]
           /\ is_file(fs', CurDest) /\ fs'[CurDest] = fs[CurDest] ]_vars

\* a file of a destination folder that this step removes or changes
Destroyed(p) == Len(p) >= 2 /\ is_file(fs, p) /\ ~(is_file(fs', p) /\ fs'[p] = fs[p])

\* C5 as stated: with overwrite off, every file present in a destination
\* folder before a step is present, unchanged, after it.
C5_NeverDestroys == [][ ~overwrite => \A p \in DOMAIN fs : ~Destroyed(p) ]_vars

\* C5 as amended: with overwrite off, the only file of a destination folder a
\* step can replace is the one at the timestamp-renamed path
\* destination_dir/{stem}_{timestamp}{ext} of the file being moved, when
\* destination_dir/source_filename is occupied too; every other file of a
\* destination folder, that one included, stays unchanged.
C5_DestroysOnlyRenameTarget ==
    [][ ~overwrite =>
          \A p \in DOMAIN fs :
             Destroyed(p) => (pc = "loop" /\ exists(fs, CurDest) /\ p = CurRenamed) ]_vars

\* C5 witness: a move with overwrite off met an occupied destination, went to
\* the renamed path, and the file that was there first is intact.
C5_Witness ==
    /\ last.called /\ last.success /\ ~overwrite /\ ~dry_run
    /\ last.dest # <<last.folder, last.file>>
    /\ is_file(fs, <<last.folder, last.file>>)
    /\ fs[<<last.folder, last.file>>] = fs0[<<last.folder, last.file>>]
    /\ is_file(fs, last.dest)
    /\ fs[last.dest] = Content(last.file)

\* C6: when the configuration is missing or malformed (a rule entry lacking a
\* required field included), the run aborts with the filesystem untouched.
C6_ConfigErrorBeforeAnyMove == exc \in ConfigErrors => fs = fs0

\* C9: a non-dry-run move_file that returns success has removed the file from
\* source_path and put it at the resolved final path; one that returns
\* failure has left it at source_path, unchanged.  (A final path that is an
\* existing directory is therefore never a success.)
C9_MoveOutcome ==
    [][ (Returned /\ ~dry_run) =>
          IF last'.success
          THEN /\ ~exists(fs', CurSrc)
               /\ is_file(fs', last'.dest)
               /\ fs'[last'.dest] = fs[CurSrc]
          ELSE /\ is_file(fs', CurSrc)
               /\ fs'[CurSrc] = fs[CurSrc] ]_vars

\* the files among the first n of the snapshot whose move failed
FailedAmong(n) == SelectSeq(SubSeq(files, 1, n), LAMBDA f : \E k \in 1..Len(errors) : errors[k] = f)

\* C10: once the loop has started (and the configuration raised nothing), the
\* per-folder counts plus the number of errors equal the number of files
\* processed, the errors are the failed files in processing order, and a
\* session that has left the loop has processed every file of the snapshot.
C10_OncePerFile ==
    (files # <<>> /\ exc \notin ConfigErrors) =>
        /\ sum_values(stats) + Len(errors) = idx - 1
        /\ errors = FailedAmong(idx - 1)
        /\ success_count = sum_values(stats)
        /\ fail_count = Len(errors)
        /\ (pc # "loop" => idx - 1 = Len(files))

--------------------------------------------------------------------------
(* Properties of classify_file, under SpecClassify *)

\* the classified filename
Classified == files[idx]

\* the lower-cased patterns of a rule
LowerPatterns(rule) == {lower(rule.patterns[i]) : i \in 1..Len(rule.patterns)}

\* the rules of the list that match the classified filename
Matching == {i \in 1..Len(rules) : RuleMatches(rules[i], Classified)}

\* rules that can match nothing: no patterns, or a type that is not recognized
NeverMatches(rule) ==
    rule.patterns = <<>> \/ rule.type \notin {"extension", "prefix"}

\* C7: classify_file returns the output_folder and name of the lowest-index
\* matching rule, whatever later rules match; when no rule matches (an empty
\* list, empty patterns, unrecognized types) the file is routed to
\* settings.unmatched_folder.
C7_FirstMatchWins ==
    pc = "classified" =>
        /\ Matching # {} =>
              LET first == CHOOSE i \in Matching : \A j \in Matching : i <= j
              IN  /\ last.folder = rules[first].output_folder
                  /\ last.rule_name = rules[first].name
        /\ Matching = {} =>
              /\ last.folder = unmatched_folder
              /\ last.rule_name = "unclassified"
        /\ (\A i \in 1..Len(rules) : NeverMatches(rules[i])) => Matching = {}

\* C7 witness: two rules with different folders both match the file, and the
\* earlier one decided.
C7_Witness ==
    /\ pc = "classified"
    /\ Len(rules) = 2
    /\ Matching = {1, 2}
    /\ rules[1].output_folder # rules[2].output_folder
    /\ last.folder = rules[1].output_folder
    /\ last.rule_name = rules[1].name

\* index of the last dot of a name, 0 when it has none
LastDot(name) ==
    IF \A i \in 1..Len(name) : name[i] # "." THEN 0
    ELSE CHOOSE i \in 1..Len(name) :
            name[i] = "." /\ \A j \in 1..Len(name) : name[j] = "." => j <= i

\* the extension as C8 states it: from the last dot to the end, '' without a dot
ExtensionAsStated(name) ==
    IF LastDot(name) = 0 THEN <<>> ELSE SubSeq(name, LastDot(name), Len(name))

\* the extension as amended: from the last dot to the end when that dot is
\* neither the first nor the last character of the name, '' otherwise
ExtensionAsAmended(name) ==
    IF 1 < LastDot(name) /\ LastDot(name) < Len(name)
    THEN SubSeq(name, LastDot(name), Len(name))
    ELSE <<>>

\* the first rule of the list is an Extension rule and it decided the result
FirstIsExtension == pc = "classified" /\ Len(rules) >= 1 /\ rules[1].type = "extension"
FirstMatched == last.rule_name = rules[1].name

\* C8 as stated: an Extension rule matches iff the lower-cased extension, the
\* substring from the last dot to the end (also for names that start or end
\* with a dot), equals one of the rule's lower-cased patterns.
C8_ExtensionFromLastDot ==
    FirstIsExtension =>
        (FirstMatched <=> lower(ExtensionAsStated(Classified)) \in LowerPatterns(rules[1]))

\* C8 as amended: an Extension rule matches iff the lower-cased extension
\* equals one of the rule's lower-cased patterns, where the extension is the
\* substring from the last dot to the end only when that dot is neither the
\* first nor the last character of the name, and is empty otherwise (so
\* '.bashrc' and 'a.' have no extension).
C8_ExtensionIsPathSuffix ==
    FirstIsExtension =>
        (FirstMatched <=> lower(ExtensionAsAmended(Classified)) \in LowerPatterns(rules[1]))

\* C8 witness: an upper-case pattern matched a lower-case extension, and a
\* name with a second, leading dot was classified by its last dot.
C8_Witness ==
    /\ FirstIsExtension
    /\ Classified = <<".", "a", ".", "a">>
    /\ <<".", "A">> \in {rules[1].patterns[i] : i \in 1..Len(rules[1].patterns)}
    /\ FirstMatched

==========================================================================
